---- MODULE Spec2Model ----
(***************************************************************************)
(* State-machine model of src/src/components/MapComponent.jsx: the map    *)
(* host lifecycle, the pointer handlers, the debounced suggestion fetch,   *)
(* the reverse-geocode and route requests and the category effect.         *)
(*                                                                         *)
(* Conventions.                                                            *)
(*  - null / undefined is the record Null ("" for a string, 0 for an id).   *)
(*  - A coordinate is an integer number of 1e-7 degrees; x.toFixed(d) is   *)
(*    the integer number of 10^-d degrees nearest to x (ToFixed).          *)
(*  - A handler, the re-render it causes and the effects of that render    *)
(*    run in one step (React flushes the effects of a discrete event       *)
(*    before the next event or timer is processed).                        *)
(*  - What the rendering library answers (hit tests, style loading) and    *)
(*  - what the network answers are inputs, drawn from small sets.          *)
(***************************************************************************)
EXTENDS Integers, Sequences, FiniteSets, TLC

\* ------------------------------------------------------------ constants
MAX_LOGGED_CLICKS == 1
MAX_COLLECTED_POINTS == 155
DEBOUNCE_DELAY == 300
MIN_SUGGEST_LENGTH == 3
SUGGEST_LIMIT == 5
CATEGORY_OPTIONS == {"All", "Building", "Cabin", "Security Pillar", "Gate", "Other", "main"}
BUILDING_LAYER_ID == "buildings-3d"
PHOTO_MARKER_LAYER_ID == "building-marker"
ROUTE_POINT_LAYER_ID == "route-point-layer"
COLOR_GOLD == "#d4af37"
COLOR_PURPLE == "#9400d3"
DEFAULT_CENTER == [lng |-> 832300000, lat |-> 177200000, zoom |-> 14, pitch |-> 65]

\* --------------------------------------------------------------- bounds
MaxMounts == 2      \* mounts of the component in one run
MaxDatasets == 2    \* distinct building datasets the store delivers
MaxPending == 2     \* requests of one kind in flight at once
MaxEvents == 6      \* handler runs in one run of Spec

\* --------------------------------------------------------------- inputs
Null == [tag |-> "null"]
NoMap == 0      \* map.current = null
NoUrl == ""     \* a null or undefined image URL
NoColor == ""   \* the paint property of a layer that does not exist

PA == [lng |-> 832512344, lat |-> 177412356]
PB == [lng |-> 832100006, lat |-> 177200004]
Points == {PA, PB}

Buttons == {0, 1, 2}

\* Features the hit test of the contextmenu handler can report.
MarkerWithImage ==
    [properties |-> [name |-> "Gate 1", id |-> 1, imageURL |-> "g1.jpg", category |-> "Gate"],
     coordinates |-> PA]
MarkerNoImage ==
    [properties |-> [name |-> "Cabin 2", id |-> 2, imageURL |-> "", category |-> "Cabin"],
     coordinates |-> PB]

Queries == {"", "ab", "abc", "abcd"}

RouteGeometry == [type |-> "LineString", id |-> 1]

TimerIds == {1, 2, 3}

\* -------------------------------------------------------------- state
VARIABLES
    mounted,              \* the component is mounted
    mountCount,           \* mounts so far (identifies the component instance)
    buildings,            \* state.map.buildings: 0 is null, d > 0 a dataset
    map,                  \* map.current: Null or the id of a map instance
    mapSeq,               \* map instances constructed so far
    liveMaps,             \* instances constructed and not yet removed
    constructedInMount,   \* instances constructed during the current mount
    styleLoaded,          \* map.isStyleLoaded()
    loadHandled,          \* the 'load' handler has run on map.current
    featureHandlers,      \* the layer click handlers (469-485) are registered
    iconRequested,        \* loadImage (457) has been called on the current map
    viewpointSource,      \* the data of the source 'viewpoint-source' of the current map
    layers,               \* ids of the layers the component has added
    buildingColor,        \* paint 'fill-extrusion-color' of the building layer
    buildingFilter,       \* filter of the building layer
    photoFilter,          \* filter of the photo-marker layer
    camera,               \* target of the last camera movement
    capturedRoute,        \* `route` as closed over by the map's handlers
    searchQuery, searchSuggestions, searchError,
    debounceTimeout,      \* debounceTimeout.current: 0 is null, else a timer id
    timers,               \* pending timers: records [id, query, delay]
    suggestPending,       \* forward-lookup requests in flight: suggestion
                          \* requests (limit 5) and submitted searches (limit 1)
    suggestFired,         \* suggestion requests issued since the last text change
    reverseGeocodeInfo, isReverseGeocoding,
    reversePending,       \* reverse-geocode requests in flight
    selectedFeature, view360Url, activeCategory, isCoordinateFormOpen,
    routePoints, loggedClicks, collectedCoordinates,
    route, error,         \* state.map.route, state.map.error
    routePending,         \* route requests in flight
    lastOp,               \* the event handled last, with its inputs
    lastDown,             \* the last mousedown: point, button, buffer length and
                          \* whether a route was set before it
    events                \* handler runs so far

mapVars == <<map, mapSeq, liveMaps, constructedInMount, styleLoaded, loadHandled,
             featureHandlers, iconRequested, viewpointSource, layers, buildingColor, buildingFilter,
             photoFilter, capturedRoute>>
searchVars == <<searchQuery, searchSuggestions, searchError, debounceTimeout, timers,
                suggestPending, suggestFired>>
reverseVars == <<reverseGeocodeInfo, isReverseGeocoding, reversePending>>
selectVars == <<selectedFeature, view360Url>>
pointerVars == <<routePoints, loggedClicks, collectedCoordinates, isCoordinateFormOpen,
                 lastDown>>
storeVars == <<route, error, routePending>>
vars == <<mounted, mountCount, buildings, mapVars, camera, searchVars, reverseVars,
          selectVars, activeCategory, pointerVars, storeVars, lastOp, events>>

\* ------------------------------------------------------------- helpers
Min(a, b) == IF a < b THEN a ELSE b

Pow10(d) == IF d = 0 THEN 1
            ELSE IF d = 1 THEN 10
            ELSE IF d = 2 THEN 100
            ELSE IF d = 3 THEN 1000
            ELSE IF d = 4 THEN 10000
            ELSE IF d = 5 THEN 100000
            ELSE IF d = 6 THEN 1000000
            ELSE 10000000

\* Number.prototype.toFixed(d) of a coordinate x (1e-7 degrees, x >= 0): the
\* decimal string with d digits, as the integer it denotes in 10^-d degrees.
ToFixed(x, d) == (x + (Pow10(7 - d) \div 2)) \div Pow10(7 - d)

Truthy(s) == s # ""

\* String.prototype.trim(), for the space character.
RECURSIVE TrimStart(_), TrimEnd(_)
TrimStart(q) ==
    IF Len(q) > 0 /\ SubSeq(q, 1, 1) = " " THEN TrimStart(SubSeq(q, 2, Len(q))) ELSE q

TrimEnd(q) ==
    IF Len(q) > 0 /\ SubSeq(q, Len(q), Len(q)) = " "
    THEN TrimEnd(SubSeq(q, 1, Len(q) - 1))
    ELSE q

\* A text left as it was typed.
TrimNothing(q) == q

Trim(q) == TrimEnd(TrimStart(q))

\* parseFloat of a decimal string "ddd.ddd" (the form the geocoding service
\* sends lon and lat in), as a coordinate in 1e-7 degrees.
Digit(c) ==
    CASE c = "0" -> 0 [] c = "1" -> 1 [] c = "2" -> 2 [] c = "3" -> 3 [] c = "4" -> 4
      [] c = "5" -> 5 [] c = "6" -> 6 [] c = "7" -> 7 [] c = "8" -> 8 [] c = "9" -> 9

RECURSIVE ParseDigits(_, _)
ParseDigits(str, acc) ==
    IF str = "" THEN acc
    ELSE ParseDigits(SubSeq(str, 2, Len(str)), acc * 10 + Digit(SubSeq(str, 1, 1)))

\* The position of the decimal point in str, Len(str) + 1 if it has none.
RECURSIVE DotAt(_, _)
DotAt(str, k) ==
    IF k > Len(str) \/ SubSeq(str, k, k) = "." THEN k ELSE DotAt(str, k + 1)

ParseFloat(str) ==
    LET dot == DotAt(str, 1)
        whole == SubSeq(str, 1, dot - 1)
        frac == SubSeq(str, dot + 1, Min(Len(str), dot + 7))
    IN ParseDigits(whole, 0) * Pow10(7) + ParseDigits(frac, 0) * Pow10(7 - Len(frac))

\* ----------------------------------------------------- component state
\* The useState initial values (lines 115-132) and fresh refs (110-112).
LocalInit ==
    /\ searchQuery = ""
    /\ searchSuggestions = <<>>
    /\ searchError = Null
    /\ debounceTimeout = 0
    /\ suggestFired = 0
    /\ reverseGeocodeInfo = Null
    /\ isReverseGeocoding = FALSE
    /\ selectedFeature = Null
    /\ view360Url = NoUrl
    /\ activeCategory = "All"
    /\ isCoordinateFormOpen = FALSE
    /\ routePoints = <<>>
    /\ loggedClicks = <<>>
    /\ collectedCoordinates = <<>>
    /\ lastDown = Null

\* The same values, assigned: the state of a component instance that has just
\* been mounted, and of one that has been unmounted (its state is discarded).
LocalReset ==
    /\ searchQuery' = ""
    /\ searchSuggestions' = <<>>
    /\ searchError' = Null
    /\ debounceTimeout' = 0
    /\ suggestFired' = 0
    /\ reverseGeocodeInfo' = Null
    /\ isReverseGeocoding' = FALSE
    /\ selectedFeature' = Null
    /\ view360Url' = NoUrl
    /\ activeCategory' = "All"
    /\ isCoordinateFormOpen' = FALSE
    /\ routePoints' = <<>>
    /\ loggedClicks' = <<>>
    /\ collectedCoordinates' = <<>>
    /\ lastDown' = Null

Init ==
    /\ mounted = TRUE
    /\ mountCount = 1
    /\ buildings = 0
    /\ map = NoMap
    /\ mapSeq = 0
    /\ liveMaps = {}
    /\ constructedInMount = 0
    /\ styleLoaded = FALSE
    /\ loadHandled = FALSE
    /\ featureHandlers = FALSE
    /\ iconRequested = FALSE
    /\ viewpointSource = <<>>
    /\ layers = {}
    /\ buildingColor = NoColor
    /\ buildingFilter = Null
    /\ photoFilter = Null
    /\ camera = Null
    /\ capturedRoute = Null
    /\ LocalInit
    /\ timers = {}
    /\ suggestPending = <<>>
    /\ reversePending = <<>>
    /\ route = Null
    /\ error = Null
    /\ routePending = <<>>
    /\ lastOp = [op |-> "mount"]
    /\ events = 0

\* ------------------------------------------------------- map lifecycle
\* Line 285: the guard of the initialization effect.
InitEffectSkips(m, b) == m # NoMap \/ b = 0

\* Lines 489-492: the effect's cleanup, map.current?.remove(); map.current = null.
\* The effect returns it only from a run that constructed a map, and map.current
\* stays non-null from then until the cleanup runs.
CleanupLive(m, live) == IF m # NoMap THEN live \ {m} ELSE live

\* Lines 284-493 run for buildings value b after the cleanup (if any) of the
\* previous run: the values of the map variables afterwards.
RunInitEffect(b) ==
    LET live == CleanupLive(map, liveMaps)
        m == NoMap   \* map.current after the cleanup, or never set
    IN IF InitEffectSkips(m, b)
       THEN [map |-> m, live |-> live, built |-> 0]
       ELSE [map |-> mapSeq + 1, live |-> live \cup {mapSeq + 1}, built |-> 1]

\* The map variables after the initialization effect has been re-run (or run
\* on mount) with buildings value b.
ApplyInitEffect(b, builtBefore) ==
    LET r == RunInitEffect(b) IN
    /\ map' = r.map
    /\ liveMaps' = r.live
    /\ mapSeq' = mapSeq + r.built
    /\ constructedInMount' = builtBefore + r.built
    /\ styleLoaded' = FALSE
    /\ loadHandled' = FALSE
    /\ featureHandlers' = FALSE
    /\ iconRequested' = FALSE
    /\ viewpointSource' = <<>>
    /\ layers' = {}
    /\ buildingColor' = NoColor
    /\ buildingFilter' = Null
    /\ photoFilter' = Null
    /\ camera' = IF r.built = 1 THEN [center |-> [lng |-> DEFAULT_CENTER.lng, lat |-> DEFAULT_CENTER.lat],
                                     zoom |-> DEFAULT_CENTER.zoom]
                 ELSE camera
    /\ capturedRoute' = IF r.built = 1 THEN route ELSE capturedRoute

\* The store delivers a building dataset (fetchBuildings fulfilled, line 252):
\* `buildings` changes, the component re-renders and the initialization effect,
\* whose dependencies include buildings (line 493), is cleaned up and re-run.
BuildingsFulfilled ==
    /\ buildings < MaxDatasets
    /\ buildings' = buildings + 1
    /\ IF mounted
       THEN ApplyInitEffect(buildings + 1, constructedInMount)
       ELSE UNCHANGED <<mapVars, camera>>
    /\ lastOp' = [op |-> "buildings"]
    /\ UNCHANGED <<mounted, mountCount, searchVars, reverseVars, selectVars,
                   activeCategory, pointerVars, storeVars>>

\* Unmount: the cleanups of the debounce effect (276-278) and of the
\* initialization effect (489-492) run. A response delivered to the unmounted
\* instance sets state on it to no effect, so those in flight are dropped here;
\* a route request's continuation dispatches to the store and stays.
Unmount ==
    /\ mounted
    /\ mounted' = FALSE
    /\ timers' = {t \in timers : t.id # debounceTimeout}
    /\ map' = NoMap
    /\ liveMaps' = CleanupLive(map, liveMaps)
    /\ styleLoaded' = FALSE
    /\ loadHandled' = FALSE
    /\ featureHandlers' = FALSE
    /\ iconRequested' = FALSE
    /\ viewpointSource' = <<>>
    /\ layers' = {}
    /\ buildingColor' = NoColor
    /\ buildingFilter' = Null
    /\ photoFilter' = Null
    /\ LocalReset
    /\ suggestPending' = <<>>
    /\ reversePending' = <<>>
    /\ lastOp' = [op |-> "unmount"]
    /\ UNCHANGED <<mountCount, buildings, mapSeq, constructedInMount, capturedRoute,
                   camera, storeVars>>

\* A new mount: fresh state and refs, then the effects of the first render.
Mount ==
    /\ ~mounted
    /\ mountCount < MaxMounts
    /\ mounted' = TRUE
    /\ mountCount' = mountCount + 1
    /\ LocalReset
    /\ ApplyInitEffect(buildings, 0)
    /\ lastOp' = [op |-> "mount"]
    /\ UNCHANGED <<buildings, timers, suggestPending, reversePending, storeVars>>

\* The library finishes loading the style: isStyleLoaded() becomes true.
StyleLoaded ==
    /\ map # NoMap
    /\ ~styleLoaded
    /\ styleLoaded' = TRUE
    /\ lastOp' = [op |-> "styleLoaded"]
    /\ UNCHANGED <<mounted, mountCount, buildings, map, mapSeq, liveMaps,
                   constructedInMount, loadHandled, featureHandlers, iconRequested,
                   viewpointSource, layers,
                   buildingColor, buildingFilter, photoFilter, capturedRoute, camera,
                   searchVars,
                   reverseVars, selectVars, activeCategory, pointerVars, storeVars>>

\* Lines 384-486, the 'load' handler. It adds the sources (430-435), the
\* building layer (439-442) and the route-point layer (443-446); the third
\* addLayer call (447-450) evaluates BOX_SOURCE_SOURCE_ID, an identifier the
\* file never declares, so the handler ends there with a ReferenceError: the
\* remaining layers, the icon load (457-466) and the feature click handlers
\* (469-485) are not reached.
LoadHandlerLayers == {BUILDING_LAYER_ID, ROUTE_POINT_LAYER_ID}

\* Whether the handler gets past line 448 to the statements after it.
LoadHandlerCompletes == FALSE

\* Features of the buildings dataset, as the backend may send them; the
\* vertices of the rings are in 1e-4 degrees, so that their sums stay within
\* the checker's integers.
FeatureWithViewpoint ==
    [type |-> "Feature",
     properties |-> [name |-> "Gate 1", category |-> "Gate", imageURL |-> "/img/gate1.jpg",
                     viewpoint |-> [type |-> "Point",
                                    coordinates |-> <<832512344, 177412356>>]],
     geometry |-> [type |-> "Polygon",
                   coordinates |-> <<(<<(<<0, 0>>), <<10, 0>>, <<10, 10>>, <<0, 10>>,
                                       <<0, 0>>>>)>>]]
FeaturePolygon ==
    [type |-> "Feature",
     properties |-> [name |-> "Cabin 2", category |-> "Cabin"],
     geometry |-> [type |-> "Polygon",
                   coordinates |-> <<(<<(<<832300, 177200>>), <<832310, 177200>>,
                                       <<832310, 177210>>, <<832300, 177210>>,
                                       <<832300, 177200>>>>)>>]]
FeatureViewpointWithoutCoordinates ==
    [type |-> "Feature",
     properties |-> [name |-> "Tower", viewpoint |-> [type |-> "Point"]],
     geometry |-> [type |-> "Polygon",
                   coordinates |-> <<(<<(<<10, 20>>), <<30, 20>>, <<20, 50>>>>)>>]]
FeatureNoRing ==
    [type |-> "Feature",
     properties |-> [name |-> "Shed"],
     geometry |-> [type |-> "Polygon", coordinates |-> <<>>]]
FeatureNoCoordinates ==
    [type |-> "Feature", properties |-> [name |-> "Plot"], geometry |-> [type |-> "Polygon"]]
FeatureLine ==
    [type |-> "Feature",
     properties |-> [name |-> "Fence"],
     geometry |-> [type |-> "LineString", coordinates |-> <<(<<40, 40>>), <<60, 60>>>>]]

\* The features of the n-th dataset fetched.
BuildingFeatures(n) ==
    IF n = 1
    THEN <<FeaturePolygon, FeatureWithViewpoint, FeatureNoRing>>
    ELSE IF n = 2
    THEN <<FeatureLine, FeatureViewpointWithoutCoordinates, FeatureNoCoordinates,
           FeatureWithViewpoint>>
    ELSE <<>>

\* Whether the object has a property of that name with a value (a property
\* that is absent reads as undefined).
Has(object, key) == key \in DOMAIN object

\* coords.reduce((sum, p) => sum + p[k], 0)
RECURSIVE SumOf(_, _)
SumOf(coords, k) ==
    IF coords = <<>> THEN 0 ELSE coords[1][k] + SumOf(Tail(coords), k)

\* Lines 413-416: the average of the vertices of the ring; the rings of the
\* datasets above have averages that are whole numbers.
VertexAverage(coords) ==
    <<SumOf(coords, 1) \div Len(coords), SumOf(coords, 2) \div Len(coords)>>

\* A marker placed at the first vertex of the ring.
PointCoordsFirstVertex(feature) ==
    IF Has(feature.properties, "viewpoint") /\ Has(feature.properties.viewpoint, "coordinates")
    THEN feature.properties.viewpoint.coordinates
    ELSE IF /\ Has(feature.geometry, "coordinates")
            /\ Len(feature.geometry.coordinates) > 0
            /\ feature.geometry.type = "Polygon"
    THEN feature.geometry.coordinates[1][1]
    ELSE <<0, 0>>

\* Lines 409-419: the point of a feature's marker.
PointCoords(feature) ==
    IF Has(feature.properties, "viewpoint") /\ Has(feature.properties.viewpoint, "coordinates")
    THEN feature.properties.viewpoint.coordinates
    ELSE IF /\ Has(feature.geometry, "coordinates")
            /\ Len(feature.geometry.coordinates) > 0
            /\ feature.geometry.type = "Polygon"
    THEN VertexAverage(feature.geometry.coordinates[1])
    ELSE <<0, 0>>

\* Lines 407-427: the features of the marker dataset.
ViewpointMarkers(features) ==
    [k \in 1..Len(features) |->
        [type |-> "Feature",
         geometry |-> [type |-> "Point", coordinates |-> PointCoords(features[k])],
         properties |-> features[k].properties]]

MapLoad ==
    /\ map # NoMap
    /\ styleLoaded
    /\ ~loadHandled
    /\ loadHandled' = TRUE
    /\ layers' = LoadHandlerLayers
    /\ featureHandlers' = LoadHandlerCompletes
    /\ iconRequested' = LoadHandlerCompletes
    /\ viewpointSource' = ViewpointMarkers(BuildingFeatures(buildings))
    /\ buildingColor' = COLOR_GOLD
    /\ buildingFilter' = Null
    /\ lastOp' = [op |-> "load"]
    /\ UNCHANGED <<mounted, mountCount, buildings, map, mapSeq, liveMaps,
                   constructedInMount, styleLoaded, photoFilter, capturedRoute,
                   camera, searchVars, reverseVars, selectVars, activeCategory,
                   pointerVars, storeVars>>

\* ---------------------------------------------------- pointer handlers
\* Line 302.
ButtonType(b) == IF b = 0 THEN "LEFT" ELSE IF b = 2 THEN "RIGHT" ELSE "OTHER"

\* Line 303.
NewClick(p, b) ==
    [lng |-> ToFixed(p.lng, 4), lat |-> ToFixed(p.lat, 4), button |-> ButtonType(b)]

\* A log that keeps its entry once it has one (the slice put first).
LogClickKeepsOldest(prev, click) ==
    IF prev = <<>> THEN <<click>> ELSE prev

\* Line 305: prev => [newClick, ...prev.slice(0, MAX_LOGGED_CLICKS - 1)].
LogClick(prev, click) ==
    <<click>> \o SubSeq(prev, 1, Min(Len(prev), MAX_LOGGED_CLICKS - 1))

\* A capacity test that is off by one: > in place of >=.
CollectPointOffByOne(prev, p) ==
    IF Len(prev) > MAX_COLLECTED_POINTS
    THEN prev
    ELSE Append(prev, [lng |-> ToFixed(p.lng, 6), lat |-> ToFixed(p.lat, 6)])

\* Lines 311-318: the updater of the collected-coordinate buffer.
CollectPoint(prev, p) ==
    IF Len(prev) >= MAX_COLLECTED_POINTS
    THEN prev
    ELSE Append(prev, [lng |-> ToFixed(p.lng, 6), lat |-> ToFixed(p.lat, 6)])

\* A test that takes every button but the primary one for the secondary one.
CollectsOnNonPrimary(b) == b # 0

\* Line 307: the press is one of the secondary button.
Collects(b) == b = 2

\* Lines 300-324, the 'mousedown' handler, for a press of button b at p.
MouseDown(p, b) ==
    /\ map # NoMap
    /\ loggedClicks' = LogClick(loggedClicks, NewClick(p, b))
    /\ IF Collects(b)
       THEN /\ collectedCoordinates' = CollectPoint(collectedCoordinates, p)
            /\ routePoints' = <<>>
            /\ route' = Null
       ELSE UNCHANGED <<collectedCoordinates, routePoints, route>>
    /\ lastDown' = [at |-> p, button |-> b, collectedBefore |-> Len(collectedCoordinates),
                     hadRoute |-> (route # Null)]
    /\ lastOp' = [op |-> "mousedown"]
    /\ UNCHANGED <<mounted, mountCount, buildings, mapVars, camera, searchVars,
                   reverseVars, selectVars, activeCategory, isCoordinateFormOpen,
                   error, routePending>>

\* Line 345: the handlers are registered by the initialization effect and close
\* over routePoints and route of the render that ran it. routePoints is never
\* set to anything but [] (lines 230, 321, 346, 765), so its captured value is
\* its current one; route's captured value is capturedRoute.
ClickClearsRoute == Len(routePoints) > 0 \/ capturedRoute # Null

\* Lines 332-336: whether a feature under the point belongs to a feature-bearing
\* layer; hitLayers are the layers of the features queryRenderedFeatures reports.
FeatureLayers == {BUILDING_LAYER_ID, "viewpoint-markers", PHOTO_MARKER_LAYER_ID}

\* A hit test that looks at the building layer only.
IsFeatureClickedBuildingOnly(hitLayers) == BUILDING_LAYER_ID \in hitLayers

IsFeatureClicked(hitLayers) == hitLayers \cap FeatureLayers # {}

\* Lines 469-477 and 479-485, the layer click handlers, which the library runs
\* for a click on a feature of their layer once they are registered: the
\* feature selected, the viewer URL and the camera afterwards. The feature under
\* a click at p is the one whose representative point is p.
FeatureAt(p) == IF p = MarkerWithImage.coordinates THEN MarkerWithImage ELSE MarkerNoImage

FeatureClick(p, hitLayers) ==
    LET feature == FeatureAt(p)
        onMarker == PHOTO_MARKER_LAYER_ID \in hitLayers
    IN [selected |-> [name |-> feature.properties.name,
                      id |-> feature.properties.id,
                      imageURL |-> feature.properties.imageURL,
                      category |-> feature.properties.category,
                      centerPoint |-> feature.coordinates],
        url |-> IF onMarker /\ Truthy(feature.properties.imageURL)
                THEN feature.properties.imageURL ELSE view360Url,
        camera |-> [center |-> feature.coordinates, zoom |-> 16]]

FeatureHandlerRuns(hitLayers) ==
    featureHandlers /\ hitLayers \cap {BUILDING_LAYER_ID, PHOTO_MARKER_LAYER_ID} # {}

\* Lines 327-355, the 'click' handler, for a click of button b at p, with the
\* layer click handlers the same event reaches.
\* Its last call, handleReverseGeocode(lng, lat), runs up to its await (157-158).
Click(p, b, hitLayers) ==
    /\ map # NoMap
    /\ lastOp' = [op |-> "click", at |-> p, button |-> b, hit |-> hitLayers]
    /\ IF FeatureHandlerRuns(hitLayers)
       THEN camera' = FeatureClick(p, hitLayers).camera
       ELSE UNCHANGED camera
    /\ IF FeatureHandlerRuns(hitLayers)
       THEN /\ reverseGeocodeInfo' = Null
            /\ selectedFeature' = FeatureClick(p, hitLayers).selected
            /\ view360Url' = FeatureClick(p, hitLayers).url
            /\ UNCHANGED <<isReverseGeocoding, reversePending,
                           searchSuggestions, routePoints, route>>
       ELSE IF b # 0
       THEN UNCHANGED <<reverseVars, selectVars, searchSuggestions, routePoints, route>>
       ELSE IF IsFeatureClicked(hitLayers)
       THEN /\ reverseGeocodeInfo' = Null
            /\ UNCHANGED <<isReverseGeocoding, reversePending, selectVars,
                           searchSuggestions, routePoints, route>>
       ELSE /\ Len(reversePending) < MaxPending
            /\ IF ClickClearsRoute
               THEN routePoints' = <<>> /\ route' = Null
               ELSE UNCHANGED <<routePoints, route>>
            /\ selectedFeature' = Null
            /\ view360Url' = NoUrl
            /\ searchSuggestions' = <<>>
            /\ isReverseGeocoding' = TRUE
            /\ reversePending' =
                   Append(reversePending, [lat |-> p.lat, lng |-> p.lng, overtaken |-> FALSE])
            /\ UNCHANGED reverseGeocodeInfo
    /\ UNCHANGED <<mounted, mountCount, buildings, mapVars, searchQuery,
                   searchError, debounceTimeout, timers, suggestPending, suggestFired,
                   activeCategory, loggedClicks, collectedCoordinates,
                   isCoordinateFormOpen, lastDown, error, routePending>>

\* A hit test that wants more than one feature under the point.
ContextSelectsSeveral(features) ==
    Len(features) > 1 /\ Truthy(features[1].properties.imageURL)

\* A hit test that does not look at imageURL.
ContextSelectsAnyMarker(features) == Len(features) > 0

\* The contextmenu event at p belongs to the press whose mousedown was handled
\* just before it: the browser sends mousedown, then contextmenu, for one press
\* of the secondary button.
SamePress(p) ==
    /\ lastOp.op = "mousedown"
    /\ lastDown # Null
    /\ lastDown.button = 2
    /\ lastDown.at = p

\* Lines 364-366: the handler acts on the first feature, if it has an imageURL.
ContextSelects(features) ==
    Len(features) > 0 /\ Truthy(features[1].properties.imageURL)

\* Lines 358-382, the 'contextmenu' handler at p; features is what
\* queryRenderedFeatures reports for the marker layers.
ContextMenu(p, features) ==
    /\ map # NoMap
    /\ IF ContextSelects(features)
       THEN LET feature == features[1] IN
            /\ selectedFeature' = [name |-> feature.properties.name,
                                   id |-> feature.properties.id,
                                   imageURL |-> feature.properties.imageURL,
                                   category |-> feature.properties.category,
                                   centerPoint |-> [lng |-> p.lng, lat |-> p.lat]]
            /\ view360Url' = feature.properties.imageURL
            /\ camera' = [center |-> feature.coordinates, zoom |-> 16]
            /\ collectedCoordinates' = <<>>
            /\ isCoordinateFormOpen' = FALSE
       ELSE UNCHANGED <<selectVars, camera, collectedCoordinates, isCoordinateFormOpen>>
    /\ lastOp' = [op |-> "contextmenu", at |-> p, features |-> features,
                   samePress |-> SamePress(p)]
    /\ UNCHANGED <<mounted, mountCount, buildings, mapVars, searchVars, reverseVars,
                   activeCategory, routePoints, loggedClicks, lastDown, storeVars>>

\* ------------------------------------------------------ reverse geocode
\* Lines 66-106, fetchPincodeAndAddress(lat, lng), for the service's answer.
\* A reverse lookup that passes the address fields on without defaults.
FetchPincodeAndAddressNoDefaults(lat, lng, resp) ==
    IF resp.kind = "failure"
    THEN [pincode |-> "Error", latitude |-> ToFixed(lat, 6),
          longitude |-> ToFixed(lng, 6), fullAddress |-> "Service Error"]
    ELSE IF resp.hasAddress
    THEN [pincode |-> resp.postcode, latitude |-> ToFixed(lat, 6),
          longitude |-> ToFixed(lng, 6), fullAddress |-> resp.display_name]
    ELSE [pincode |-> "N/A", latitude |-> ToFixed(lat, 6),
          longitude |-> ToFixed(lng, 6), fullAddress |-> "No Address Data Found"]

FetchPincodeAndAddress(lat, lng, resp) ==
    IF resp.kind = "failure"
    THEN [pincode |-> "Error", latitude |-> ToFixed(lat, 6),
          longitude |-> ToFixed(lng, 6), fullAddress |-> "Service Error"]
    ELSE IF resp.hasAddress
    THEN [pincode |-> IF Truthy(resp.postcode) THEN resp.postcode ELSE "N/A",
          latitude |-> ToFixed(lat, 6), longitude |-> ToFixed(lng, 6),
          fullAddress |-> IF Truthy(resp.display_name) THEN resp.display_name
                          ELSE "Address Not Found"]
    ELSE [pincode |-> "N/A", latitude |-> ToFixed(lat, 6),
          longitude |-> ToFixed(lng, 6), fullAddress |-> "No Address Data Found"]

ReverseFailure == [kind |-> "failure"]
ReverseAddress ==
    [kind |-> "data", hasAddress |-> TRUE, postcode |-> "530001",
     display_name |-> "Beach Road, Visakhapatnam"]
ReverseNoAddress ==
    [kind |-> "data", hasAddress |-> FALSE, postcode |-> "", display_name |-> ""]
ReverseNoPostcode ==
    [kind |-> "data", hasAddress |-> TRUE, postcode |-> "",
     display_name |-> "Beach Road, Visakhapatnam"]
ReverseNoName ==
    [kind |-> "data", hasAddress |-> TRUE, postcode |-> "530001", display_name |-> ""]
ReverseResponses == {ReverseFailure, ReverseAddress}
AllReverseResponses ==
    ReverseResponses \cup {ReverseNoAddress, ReverseNoPostcode, ReverseNoName}

RemoveAt(seq, i) == SubSeq(seq, 1, i - 1) \o SubSeq(seq, i + 1, Len(seq))

\* Lines 158-160: the continuation of handleReverseGeocode, when the answer to
\* the i-th request in flight arrives.
\* An answer applied only when no later request was made.
AppliesAnswerIfLatest(i) == i = Len(reversePending)

\* Lines 158-160: the answer to the i-th request in flight is applied
\* whatever was requested or done since.
AppliesAnswer(i) == TRUE

\* The requests in flight without the i-th, the ones made before it marked
\* as overtaken by its answer.
Overtake(pending, i) ==
    [k \in 1..(Len(pending) - 1) |->
        IF k < i THEN [pending[k] EXCEPT !.overtaken = TRUE] ELSE pending[k + 1]]

\* Lines 158-160: the continuation of handleReverseGeocode when the answer to
\* the i-th request in flight arrives.
ReverseResponse(i, resp) ==
    /\ i \in 1..Len(reversePending)
    /\ IF AppliesAnswer(i)
       THEN reverseGeocodeInfo' =
               FetchPincodeAndAddress(reversePending[i].lat, reversePending[i].lng, resp)
       ELSE UNCHANGED reverseGeocodeInfo
    /\ isReverseGeocoding' = FALSE
    /\ reversePending' = Overtake(reversePending, i)
    /\ lastOp' = [op |-> "reverseResponse",
                  req |-> [lng |-> reversePending[i].lng, lat |-> reversePending[i].lat],
                  resp |-> resp, overtaken |-> reversePending[i].overtaken]
    /\ UNCHANGED <<mounted, mountCount, buildings, mapVars, camera, searchVars,
                   selectVars, activeCategory, pointerVars, storeVars>>

\* --------------------------------------------------------------- route
\* A catch block that logs the failure and dispatches nothing.
RoutingFailedUnset == Null

\* Line 215: the payload of setError.
RoutingFailed == [msg |-> "Routing failed. Check routing service connection."]

\* Lines 202-210, handleRoute(endPoint) up to its await. The info panel, shown
\* while a feature is selected (798-805), calls it.
HandleRoute(endPoint) ==
    /\ mounted
    /\ selectedFeature # Null
    /\ map # NoMap
    /\ Len(routePending) < MaxPending
    /\ route' = Null
    /\ routePending' = Append(routePending,
           [start |-> camera.center, end |-> endPoint, mount |-> mountCount])
    /\ lastOp' = [op |-> "handleRoute", end |-> endPoint]
    /\ UNCHANGED <<mounted, mountCount, buildings, mapVars, camera, searchVars,
                   reverseVars, selectVars, activeCategory, pointerVars, error>>

\* map.current as the continuation of a request issued by mount k reads it: the
\* ref of an unmounted instance was set to null by the cleanup (491).
MapRefOf(k) == IF mounted /\ k = mountCount THEN map ELSE NoMap

\* Lines 211-216: the continuation of handleRoute when the answer to the i-th
\* request in flight arrives; ok is whether the request succeeded. With
\* map.current null, line 212 throws inside the try and the catch runs.
RouteResponse(i, ok) ==
    /\ i \in 1..Len(routePending)
    /\ LET req == routePending[i] IN
       IF ok
       THEN /\ route' = RouteGeometry
            /\ IF MapRefOf(req.mount) # NoMap
               THEN camera' = [center |-> req.start, zoom |-> 16] /\ UNCHANGED error
               ELSE error' = RoutingFailed /\ UNCHANGED camera
       ELSE /\ error' = RoutingFailed
            /\ UNCHANGED <<route, camera>>
    /\ routePending' = RemoveAt(routePending, i)
    /\ lastOp' = [op |-> "routeResponse", ok |-> ok, req |-> routePending[i]]
    /\ UNCHANGED <<mounted, mountCount, buildings, mapVars, searchVars, reverseVars,
                   selectVars, activeCategory, pointerVars>>

\* Lines 764-769, the Clear Route button, rendered while a route exists (762).
ClearRoute ==
    /\ mounted
    /\ Len(routePoints) > 0 \/ route # Null
    /\ routePoints' = <<>>
    /\ route' = Null
    /\ lastOp' = [op |-> "clearRoute"]
    /\ UNCHANGED <<mounted, mountCount, buildings, mapVars, camera, searchVars,
                   reverseVars, selectVars, activeCategory, loggedClicks,
                   collectedCoordinates, isCoordinateFormOpen, lastDown, error,
                   routePending>>

\* Lines 191-194, handleCancelInfoPanel, the info panel's cancel.
\* A cancel that leaves the viewer open.
HandleCancelKeepsViewer ==
    /\ mounted
    /\ selectedFeature # Null
    /\ selectedFeature' = Null
    /\ lastOp' = [op |-> "cancelInfoPanel"]
    /\ UNCHANGED <<mounted, mountCount, buildings, mapVars, camera, searchVars,
                   reverseVars, view360Url, activeCategory, pointerVars, storeVars>>

\* Line 802: the info panel's 360-view button (the panel is rendered while a
\* feature is selected, line 798).
On360View ==
    /\ mounted
    /\ selectedFeature # Null
    /\ view360Url' = selectedFeature.imageURL
    /\ lastOp' = [op |-> "on360View"]
    /\ UNCHANGED <<mounted, mountCount, buildings, mapVars, camera, searchVars,
                   reverseVars, selectedFeature, activeCategory, pointerVars, storeVars>>

\* Line 809: the viewer's close button (the viewer is rendered while the URL
\* is set, line 808).
CloseView360 ==
    /\ mounted
    /\ view360Url # NoUrl
    /\ view360Url' = NoUrl
    /\ lastOp' = [op |-> "closeView360"]
    /\ UNCHANGED <<mounted, mountCount, buildings, mapVars, camera, searchVars,
                   reverseVars, selectedFeature, activeCategory, pointerVars, storeVars>>

HandleCancelInfoPanel ==
    /\ mounted
    /\ selectedFeature # Null
    /\ selectedFeature' = Null
    /\ view360Url' = NoUrl
    /\ lastOp' = [op |-> "cancelInfoPanel"]
    /\ UNCHANGED <<mounted, mountCount, buildings, mapVars, camera, searchVars,
                   reverseVars, activeCategory, pointerVars, storeVars>>

\* ------------------------------------------------- coordinate collection
\* Line 749, the data-entry toggle.
ToggleCoordinateForm ==
    /\ mounted
    /\ isCoordinateFormOpen' = ~isCoordinateFormOpen
    /\ lastOp' = [op |-> "toggleForm"]
    /\ UNCHANGED <<mounted, mountCount, buildings, mapVars, camera, searchVars,
                   reverseVars, selectVars, activeCategory, routePoints, loggedClicks,
                   collectedCoordinates, lastDown, storeVars>>

\* Lines 185-188, resetCollectedCoordinates; its button is rendered while the
\* form is open and the buffer is non-empty (603, 624-631).
ResetCollectedCoordinates ==
    /\ mounted
    /\ isCoordinateFormOpen
    /\ Len(collectedCoordinates) > 0
    /\ collectedCoordinates' = <<>>
    /\ isCoordinateFormOpen' =
           IF Len(collectedCoordinates) = 0 THEN FALSE ELSE isCoordinateFormOpen
    /\ lastOp' = [op |-> "resetCollected"]
    /\ UNCHANGED <<mounted, mountCount, buildings, mapVars, camera, searchVars,
                   reverseVars, selectVars, activeCategory, routePoints, loggedClicks,
                   lastDown, storeVars>>

\* ------------------------------------------------------ category effect
\* Line 500.
ExtrusionColor(c) == IF c = "All" THEN COLOR_GOLD ELSE COLOR_PURPLE

\* A building filter that is cleared for every category.
BuildingFilterAlwaysNull(c) == Null

\* Line 504: the filter given to the building layer.
BuildingFilterFor(c) ==
    IF c = "All" THEN Null ELSE [op |-> "==", get |-> "category", value |-> c]

\* Lines 508-511: the filter given to the photo-marker layer.
PhotoFilterFor(c) ==
    IF c = "All"
    THEN [op |-> "has", key |-> "imageURL"]
    ELSE [op |-> "all", key |-> "imageURL", get |-> "category", value |-> c]

\* Line 498: the guard of the effect.
CategoryEffectRuns == map # NoMap /\ styleLoaded

\* Lines 497-513, the category effect run for active category c.
CategoryEffect(c) ==
    IF CategoryEffectRuns
    THEN /\ IF BUILDING_LAYER_ID \in layers
            THEN /\ buildingColor' = ExtrusionColor(c)
                 /\ buildingFilter' = BuildingFilterFor(c)
            ELSE UNCHANGED <<buildingColor, buildingFilter>>
         /\ IF PHOTO_MARKER_LAYER_ID \in layers
            THEN photoFilter' = PhotoFilterFor(c)
            ELSE UNCHANGED photoFilter
    ELSE UNCHANGED <<buildingColor, buildingFilter, photoFilter>>

\* The effect's dependency is activeCategory (513): it runs when that changes.
CategoryChanged(c) ==
    IF c # activeCategory
    THEN CategoryEffect(c)
    ELSE UNCHANGED <<buildingColor, buildingFilter, photoFilter>>

\* Lines 197-199, handleCategoryClick(category), and the effect of the render.
HandleCategoryClick(c) ==
    /\ mounted
    /\ activeCategory' = c
    /\ CategoryChanged(c)
    /\ lastOp' = [op |-> "category", changed |-> (c # activeCategory)]
    /\ UNCHANGED <<mounted, mountCount, buildings, map, mapSeq, liveMaps,
                   constructedInMount, styleLoaded, loadHandled, featureHandlers, iconRequested,
                   viewpointSource,
                   layers, capturedRoute,
                   camera, searchVars, reverseVars, selectVars, pointerVars, storeVars>>

\* Lines 220-245, resetMapView; its button is rendered while map.current is
\* set (731). Setting activeCategory re-runs the category effect.
\* A reset that does not look for the map.
ResetRunsAlways(m) == TRUE

\* Line 221: the body of resetMapView runs.
ResetRuns(m) == m # NoMap

ResetMapView ==
    /\ mounted
    /\ IF ResetRuns(map)
       THEN /\ camera' = [center |-> [lng |-> DEFAULT_CENTER.lng, lat |-> DEFAULT_CENTER.lat],
                          zoom |-> DEFAULT_CENTER.zoom]
            /\ routePoints' = <<>>
            /\ collectedCoordinates' = <<>>
            /\ loggedClicks' = <<>>
            /\ route' = Null
            /\ selectedFeature' = Null
            /\ view360Url' = NoUrl
            /\ isCoordinateFormOpen' = FALSE
            /\ activeCategory' = "All"
            /\ CategoryChanged("All")
            /\ searchSuggestions' = <<>>
            /\ reverseGeocodeInfo' = Null
       ELSE UNCHANGED <<camera, routePoints, collectedCoordinates, loggedClicks, route,
                        selectedFeature, view360Url, isCoordinateFormOpen,
                        activeCategory, buildingColor, buildingFilter, photoFilter,
                        searchSuggestions, reverseGeocodeInfo>>
    /\ lastOp' = [op |-> "reset", hadMap |-> (map # NoMap)]
    /\ UNCHANGED <<mounted, mountCount, buildings, map, mapSeq, liveMaps,
                   constructedInMount, styleLoaded, loadHandled, featureHandlers, iconRequested,
                   viewpointSource,
                   layers, capturedRoute,
                   searchQuery, searchError, debounceTimeout, timers, suggestPending,
                   suggestFired, isReverseGeocoding, reversePending, lastDown, error,
                   routePending>>

\* ------------------------------------------------- search and debounce
\* A cleanup that forgets clearTimeout.
ClearDebounceOmitted(ts, ref) == ts

\* Lines 257-259 and 276-278: clearTimeout(debounceTimeout.current).
ClearDebounce(ts, ref) == {t \in ts : t.id # ref}

\* A length test that lets two-character texts through.
QueryTooShortBelowTwo(q) == Len(q) < MIN_SUGGEST_LENGTH - 1

\* Line 261: the effect returns before scheduling.
QueryTooShort(q) == Len(q) < MIN_SUGGEST_LENGTH

\* The id setTimeout returns: one no pending timer has and the ref does not hold.
FreshTimerId(ts, ref) ==
    CHOOSE i \in TimerIds :
        /\ i # ref
        /\ \A t \in ts : t.id # i
        /\ \A j \in TimerIds : (j # ref /\ \A t \in ts : t.id # j) => i <= j

\* Lines 266-273: the timer the effect schedules for query q.
NewTimer(ts, ref, q) ==
    [id |-> FreshTimerId(ts, ref), query |-> q, delay |-> DEBOUNCE_DELAY]

\* Lines 256-280, the debounce effect for a render in which searchQuery became
\* q: the cleanup of the previous run (if it scheduled a timer) and this run.
DebounceTimers(q) ==
    LET cleared == ClearDebounce(timers, debounceTimeout) IN
    IF QueryTooShort(q)
    THEN cleared
    ELSE cleared \cup {NewTimer(cleared, debounceTimeout, q)}

DebounceRef(q) ==
    IF QueryTooShort(q)
    THEN debounceTimeout
    ELSE FreshTimerId(ClearDebounce(timers, debounceTimeout), debounceTimeout)

\* Line 673, the input's onChange, and the debounce effect of the render.
SetSearchQuery(q) ==
    /\ mounted
    /\ q # searchQuery
    /\ searchQuery' = q
    /\ timers' = DebounceTimers(q)
    /\ debounceTimeout' = DebounceRef(q)
    /\ searchSuggestions' = IF QueryTooShort(q) THEN <<>> ELSE searchSuggestions
    /\ suggestFired' = 0
    /\ lastOp' = [op |-> "type", hadTimer |-> (timers # {})]
    /\ UNCHANGED <<mounted, mountCount, buildings, mapVars, camera, searchError,
                   suggestPending, reverseVars, selectVars, activeCategory,
                   pointerVars, storeVars>>

\* A guard that also skips three-character texts.
SkipsRequestUpToThree(query, limit) == limit > 1 /\ Len(query) <= MIN_SUGGEST_LENGTH

\* Line 43: fetchCoordinates answers [] without a request.
SkipsRequest(query, limit) == limit > 1 /\ Len(query) < MIN_SUGGEST_LENGTH

\* Lines 266-268: a pending timer's delay has elapsed and its callback runs
\* fetchCoordinates(searchQuery, 5) up to the request.
TimerFires(t) ==
    /\ t \in timers
    /\ timers' = timers \ {t}
    /\ IF SkipsRequest(t.query, SUGGEST_LIMIT)
       THEN /\ searchSuggestions' = <<>>
            /\ UNCHANGED <<suggestPending, suggestFired>>
       ELSE /\ Len(suggestPending) < MaxPending
            /\ suggestPending' = Append(suggestPending, [q |-> t.query, limit |-> SUGGEST_LIMIT])
            /\ suggestFired' = Min(suggestFired + 1, 2)
            /\ UNCHANGED searchSuggestions
    /\ lastOp' = [op |-> "timer", query |-> t.query]
    /\ UNCHANGED <<mounted, mountCount, buildings, mapVars, camera, searchQuery,
                   searchError, debounceTimeout, reverseVars, selectVars,
                   activeCategory, pointerVars, storeVars>>

\* A zoom that treats only cities as wide places.
ZoomForCityOnly(type) == IF type = "city" THEN 12 ELSE 14

\* Line 55: the zoom of a place of the given type.
ZoomFor(type) == IF type = "city" \/ type = "administrative" THEN 12 ELSE 14

\* Lines 51-56.
MapResult(result) ==
    [name |-> result.display_name, lng |-> ParseFloat(result.lon),
     lat |-> ParseFloat(result.lat), zoom |-> ZoomFor(result.type)]

FetchCoordinatesResult(resp) ==
    IF resp.kind = "failure"
    THEN <<>>
    ELSE [k \in 1..Len(resp.data) |-> MapResult(resp.data[k])]

SearchFailure == [kind |-> "failure"]
SearchNone == [kind |-> "data", data |-> <<>>]
SearchCity ==
    [kind |-> "data",
     data |-> <<[display_name |-> "Visakhapatnam", lon |-> "83.30",
                 lat |-> "17.68", type |-> "city"]>>]
SearchSeveral ==
    [kind |-> "data",
     data |-> <<[display_name |-> "Gajuwaka", lon |-> "83.2167",
                 lat |-> "17.7", type |-> "suburb"],
                [display_name |-> "Visakhapatnam", lon |-> "83.30",
                 lat |-> "17.68", type |-> "city"],
                [display_name |-> "Visakhapatnam District", lon |-> "83.2184815",
                 lat |-> "17.6868159", type |-> "administrative"]>>]
SearchResponses == {SearchFailure, SearchNone, SearchCity}

\* Lines 268-269: the answer to the i-th suggestion request arrives and the
\* timer callback sets the suggestions.
SuggestResponse(i, resp) ==
    /\ i \in 1..Len(suggestPending)
    /\ suggestPending[i].limit = SUGGEST_LIMIT
    /\ searchSuggestions' = FetchCoordinatesResult(resp)
    /\ suggestPending' = RemoveAt(suggestPending, i)
    /\ lastOp' = [op |-> "suggestResponse", resp |-> resp]
    /\ UNCHANGED <<mounted, mountCount, buildings, mapVars, camera, searchQuery,
                   searchError, debounceTimeout, timers, suggestFired, reverseVars,
                   selectVars, activeCategory, pointerVars, storeVars>>

\* Lines 141-153, flyToLocation(lng, lat, zoom), and the debounce effect of the
\* render in which searchQuery became ''.
\* A navigation that leaves the reverse-geocode result on display.
FlyToLocationKeepsInfo(lng, lat, zoom) ==
    IF map # NoMap
    THEN /\ camera' = [center |-> [lng |-> lng, lat |-> lat],
                       zoom |-> IF zoom = 0 THEN 14 ELSE zoom]
         /\ searchSuggestions' = <<>>
         /\ searchQuery' = ""
         /\ searchError' = Null
         /\ UNCHANGED reverseGeocodeInfo
         /\ IF searchQuery # ""
            THEN /\ timers' = DebounceTimers("")
                 /\ debounceTimeout' = DebounceRef("")
                 /\ suggestFired' = 0
            ELSE UNCHANGED <<timers, debounceTimeout, suggestFired>>
    ELSE UNCHANGED <<camera, searchSuggestions, searchQuery, searchError,
                     reverseGeocodeInfo, timers, debounceTimeout, suggestFired>>

FlyToLocation(lng, lat, zoom) ==
    IF map # NoMap
    THEN /\ camera' = [center |-> [lng |-> lng, lat |-> lat],
                       zoom |-> IF zoom = 0 THEN 14 ELSE zoom]
         /\ searchSuggestions' = <<>>
         /\ searchQuery' = ""
         /\ searchError' = Null
         /\ reverseGeocodeInfo' = Null
         /\ IF searchQuery # ""
            THEN /\ timers' = DebounceTimers("")
                 /\ debounceTimeout' = DebounceRef("")
                 /\ suggestFired' = 0
            ELSE UNCHANGED <<timers, debounceTimeout, suggestFired>>
    ELSE UNCHANGED <<camera, searchSuggestions, searchQuery, searchError,
                     reverseGeocodeInfo, timers, debounceTimeout, suggestFired>>

\* An error left unset when nothing is found.
SearchNotFoundUnset == Null

\* Line 176: the message of a search without result.
SearchNotFound == [msg |-> "Location/Pincode not found or ambiguous."]

\* Line 168: handleSearch returns without a lookup.
SubmitSkips(m, q) == m = NoMap \/ ~Truthy(Trim(q))

\* Lines 164-171, handleSearch up to its await: the search form is submitted.
\* A lookup that fetchCoordinates answers with [] without a request (line 43)
\* goes on to line 176 at once.
HandleSearch ==
    /\ mounted
    /\ searchSuggestions' = <<>>
    /\ IF SubmitSkips(map, searchQuery)
       THEN searchError' = Null /\ UNCHANGED suggestPending
       ELSE IF SkipsRequest(Trim(searchQuery), 1)
       THEN searchError' = SearchNotFound /\ UNCHANGED suggestPending
       ELSE /\ Len(suggestPending) < MaxPending
            /\ searchError' = Null
            /\ suggestPending' = Append(suggestPending, [q |-> Trim(searchQuery), limit |-> 1])
    /\ lastOp' = [op |-> "search", query |-> searchQuery, hadMap |-> (map # NoMap)]
    /\ UNCHANGED <<mounted, mountCount, buildings, mapVars, camera, searchQuery,
                   debounceTimeout, timers, suggestFired, reverseVars, selectVars,
                   activeCategory, pointerVars, storeVars>>

\* Lines 171-177: the continuation of handleSearch when the answer to the i-th
\* request in flight, a submitted search, arrives.
SearchResponse(i, resp) ==
    /\ i \in 1..Len(suggestPending)
    /\ suggestPending[i].limit = 1
    /\ LET results == FetchCoordinatesResult(resp) IN
       IF Len(results) > 0
       THEN FlyToLocation(results[1].lng, results[1].lat, results[1].zoom)
       ELSE /\ searchError' = SearchNotFound
            /\ UNCHANGED <<camera, searchSuggestions, searchQuery, reverseGeocodeInfo,
                           timers, debounceTimeout, suggestFired>>
    /\ suggestPending' = RemoveAt(suggestPending, i)
    /\ lastOp' = [op |-> "searchResponse", resp |-> resp,
                  to |-> IF Len(FetchCoordinatesResult(resp)) > 0
                         THEN FetchCoordinatesResult(resp)[1] ELSE Null,
                  hadMap |-> (map # NoMap)]
    /\ UNCHANGED <<mounted, mountCount, buildings, mapVars, isReverseGeocoding,
                   reversePending, selectVars, activeCategory, pointerVars, storeVars>>

\* Line 691: a click on the i-th suggestion of the dropdown.
SuggestionClick(i) ==
    /\ mounted
    /\ i \in 1..Len(searchSuggestions)
    /\ FlyToLocation(searchSuggestions[i].lng, searchSuggestions[i].lat,
                     searchSuggestions[i].zoom)
    /\ lastOp' = [op |-> "suggestionClick", to |-> searchSuggestions[i],
                  hadMap |-> (map # NoMap)]
    /\ UNCHANGED <<mounted, mountCount, buildings, mapVars, suggestPending,
                   isReverseGeocoding, reversePending, selectVars, activeCategory,
                   pointerVars, storeVars>>

\* ------------------------------------------------------- specification
\* The inputs of Spec: small sets that reach each branch of each handler.
CategoryInputs == {"All", "Gate"}

\* A click: its point, its button and the layers of the features under it.
ClickInputs ==
    {<<PA, 0, {}>>, <<PB, 0, {"satellite"}>>, <<PA, 0, {BUILDING_LAYER_ID}>>,
     <<PB, 0, {PHOTO_MARKER_LAYER_ID, "satellite"}>>, <<PA, 1, {}>>}

\* A contextmenu event: its point and the marker features under it.
ContextInputs ==
    {<<PA, <<>>>>, <<PA, <<MarkerWithImage>>>>, <<PB, <<MarkerNoImage>>>>}

SpecQueries == {"", "ab", "abc"}

\* One handler run, counted.
Tick(Handler) == events < MaxEvents /\ events' = events + 1 /\ Handler

\* One handler run, not counted.
Free(Handler) == Handler /\ UNCHANGED events

Next ==
    \/ Tick(BuildingsFulfilled)
    \/ Tick(Unmount)
    \/ Tick(Mount)
    \/ Tick(StyleLoaded)
    \/ Tick(MapLoad)
    \/ \E p \in Points, b \in Buttons : Tick(MouseDown(p, b))
    \/ \E in \in ClickInputs : Tick(Click(in[1], in[2], in[3]))
    \/ \E in \in ContextInputs : Tick(ContextMenu(in[1], in[2]))
    \/ \E i \in 1..MaxPending, resp \in ReverseResponses : Tick(ReverseResponse(i, resp))
    \/ Tick(HandleRoute(PB))
    \/ \E i \in 1..MaxPending, ok \in BOOLEAN : Tick(RouteResponse(i, ok))
    \/ Tick(ClearRoute)
    \/ Tick(HandleCancelInfoPanel)
    \/ Tick(On360View)
    \/ Tick(CloseView360)
    \/ Tick(ToggleCoordinateForm)
    \/ Tick(ResetCollectedCoordinates)
    \/ \E c \in CategoryInputs : Tick(HandleCategoryClick(c))
    \/ Tick(ResetMapView)
    \/ \E q \in SpecQueries : Tick(SetSearchQuery(q))
    \/ \E t \in timers : Tick(TimerFires(t))
    \/ \E i \in 1..MaxPending, resp \in {SearchFailure, SearchCity} :
           Tick(SuggestResponse(i, resp))
    \/ \E i \in 1..SUGGEST_LIMIT : Tick(SuggestionClick(i))
    \/ Tick(HandleSearch)
    \/ \E i \in 1..MaxPending, resp \in {SearchNone, SearchCity} :
           Tick(SearchResponse(i, resp))

Spec == Init /\ [][Next]_vars

\* The search box alone: typing, the debounce timer, the suggestion requests and
\* the handlers that clear the suggestions, to any depth.
NextSearch ==
    \/ Free(BuildingsFulfilled)
    \/ Free(Unmount)
    \/ Free(Mount)
    \/ \E q \in Queries : Free(SetSearchQuery(q))
    \/ \E t \in timers : Free(TimerFires(t))
    \/ \E i \in 1..MaxPending, resp \in SearchResponses : Free(SuggestResponse(i, resp))
    \/ \E i \in 1..SUGGEST_LIMIT : Free(SuggestionClick(i))

SpecSearch == Init /\ [][NextSearch]_vars

\* The texts submitted in the lookup specification.
SubmitQueries == {"", "  ", "a", " ab ", "abcd"}

AllSearchResponses == SearchResponses \cup {SearchSeveral}

\* The forward and reverse lookups and the search form, with at most two
\* forward lookups in flight, a suggestion request being the first of them.
NextLookup ==
    \/ Free(BuildingsFulfilled)
    \/ \E q \in SubmitQueries : Free(SetSearchQuery(q))
    \/ Len(suggestPending) <= 1 /\ Free(HandleSearch)
    \/ \E i \in 1..MaxPending, resp \in AllSearchResponses : Free(SearchResponse(i, resp))
    \/ \E t \in timers : suggestPending = <<>> /\ Free(TimerFires(t))
    \/ \E i \in 1..MaxPending, resp \in AllSearchResponses : Free(SuggestResponse(i, resp))
    \/ reversePending = <<>> /\ reverseGeocodeInfo = Null /\ Free(Click(PA, 0, {}))
    \/ \E i \in 1..MaxPending, resp \in AllReverseResponses : Free(ReverseResponse(i, resp))

SpecLookup == Init /\ [][NextLookup]_vars

\* The debounce timers setTimeout (lines 266-273) can have pending.
AllTimers ==
    {[id |-> i, query |-> q, delay |-> DEBOUNCE_DELAY] :
        i \in TimerIds, q \in {x \in Queries : ~QueryTooShort(x)}}

\* The same, with the scheduling of setTimeout and of fetch: a timer that stays
\* pending (is not cleared) has its callback run once its delay has elapsed,
\* and a request in flight is answered or fails.
SpecSearchLive ==
    /\ SpecSearch
    /\ \A t \in AllTimers : WF_vars(Free(TimerFires(t)))
    /\ WF_vars(\E i \in 1..MaxPending, resp \in SearchResponses :
                   Free(SuggestResponse(i, resp)))

\* Coordinate collection alone: the pointer events, the clear button and the
\* reset, to any depth, so that the buffer fills to its capacity.
NextCollect ==
    \/ Free(BuildingsFulfilled)
    \/ \E b \in Buttons : Free(MouseDown(PA, b))
    \/ \E in \in ContextInputs : Free(ContextMenu(in[1], in[2]))
    \/ Free(Click(PA, 0, {BUILDING_LAYER_ID}))
    \/ Free(ToggleCoordinateForm)
    \/ Free(ResetCollectedCoordinates)
    \/ Free(ResetMapView)

SpecCollect == Init /\ [][NextCollect]_vars

\* The presses of the pointer buttons with a route drawn: the mousedown handler,
\* the selection a route request needs and one route request at a time, to any
\* depth, so that a route exists when the buffer is at its capacity.
NextPress ==
    \/ Free(BuildingsFulfilled)
    \/ \E b \in Buttons : Free(MouseDown(PA, b))
    \/ Free(ContextMenu(PA, <<MarkerWithImage>>))
    \/ routePending = <<>> /\ Free(HandleRoute(PB))
    \/ Free(RouteResponse(1, TRUE))

SpecPress == Init /\ [][NextPress]_vars

\* The category effect as a function of the map's state: a mounted component
\* whose map has any of the two filtered layers, with the style loaded or not,
\* and any active category chosen before the layers were added.
InitCategory ==
    /\ mounted = TRUE
    /\ mountCount = 1
    /\ buildings = 1
    /\ map = 1
    /\ mapSeq = 1
    /\ liveMaps = {1}
    /\ constructedInMount = 1
    /\ styleLoaded \in BOOLEAN
    /\ loadHandled = TRUE
    /\ featureHandlers = FALSE
    /\ layers \in SUBSET {BUILDING_LAYER_ID, PHOTO_MARKER_LAYER_ID}
    /\ iconRequested = (PHOTO_MARKER_LAYER_ID \in layers)
    /\ viewpointSource = ViewpointMarkers(BuildingFeatures(1))
    /\ buildingColor = IF BUILDING_LAYER_ID \in layers THEN COLOR_GOLD ELSE NoColor
    /\ buildingFilter = Null
    /\ photoFilter = IF PHOTO_MARKER_LAYER_ID \in layers
                     THEN [op |-> "has", key |-> "imageURL"] ELSE Null
    /\ camera = [center |-> [lng |-> DEFAULT_CENTER.lng, lat |-> DEFAULT_CENTER.lat],
                 zoom |-> DEFAULT_CENTER.zoom]
    /\ capturedRoute = Null
    /\ searchQuery = ""
    /\ searchSuggestions = <<>>
    /\ searchError = Null
    /\ debounceTimeout = 0
    /\ suggestFired = 0
    /\ reverseGeocodeInfo = Null
    /\ isReverseGeocoding = FALSE
    /\ selectedFeature = Null
    /\ view360Url = NoUrl
    /\ activeCategory \in CATEGORY_OPTIONS
    /\ isCoordinateFormOpen = FALSE
    /\ routePoints = <<>>
    /\ loggedClicks = <<>>
    /\ collectedCoordinates = <<>>
    /\ lastDown = Null
    /\ timers = {}
    /\ suggestPending = <<>>
    /\ reversePending = <<>>
    /\ route = Null
    /\ error = Null
    /\ routePending = <<>>
    /\ lastOp = [op |-> "mount"]
    /\ events = 0

NextCategory ==
    \/ \E c \in CATEGORY_OPTIONS : Free(HandleCategoryClick(c))
    \/ Free(StyleLoaded)
    \/ Free(ResetMapView)

SpecCategory == InitCategory /\ [][NextCategory]_vars

\* --------------------------------------------------------------- claims

\* C1 (SpecCollect): the collected-coordinate buffer never holds more than 155
\* entries, and a secondary-button mousedown that finds 155 entries in it
\* leaves it as it was.
C1_CollectedAtMost155 ==
    /\ [](Len(collectedCoordinates) <= 155)
    /\ [][(lastOp'.op = "mousedown" /\ lastDown'.button = 2
              /\ Len(collectedCoordinates) = 155)
            => collectedCoordinates' = collectedCoordinates]_vars

\* A secondary-button mousedown has just arrived at a full buffer.
C1_Witness ==
    /\ lastOp.op = "mousedown"
    /\ lastDown.button = 2
    /\ lastDown.collectedBefore = 155
    /\ Len(collectedCoordinates) = 155

\* C2 (Spec): the logged-click buffer holds at most one entry, and a non-empty
\* buffer holds the most recent mousedown: its coordinate to four decimals and
\* its button type.
C2_LoggedClickIsLatest ==
    /\ Len(loggedClicks) <= 1
    /\ loggedClicks # <<>> =>
           /\ lastDown # Null
           /\ loggedClicks[1].lng = ToFixed(lastDown.at.lng, 4)
           /\ loggedClicks[1].lat = ToFixed(lastDown.at.lat, 4)
           /\ loggedClicks[1].button =
                  CASE lastDown.button = 0 -> "LEFT"
                    [] lastDown.button = 2 -> "RIGHT"
                    [] OTHER -> "OTHER"

\* A mousedown of the auxiliary button at PB has replaced the entry of an
\* earlier secondary-button mousedown.
C2_Witness ==
    /\ lastOp.op = "mousedown"
    /\ lastDown # Null
    /\ lastDown.button = 1
    /\ lastDown.at = PB
    /\ lastDown.collectedBefore >= 1
    /\ loggedClicks = <<[lng |-> 832100, lat |-> 177200, button |-> "OTHER"]>>

\* C3 (Spec), as claimed: in no reachable state are selectedFeature and
\* reverseGeocodeInfo both non-null.
C3_SelectionExcludesReverseInfo ==
    ~(selectedFeature # Null /\ reverseGeocodeInfo # Null)

\* C4 (SpecSearch): while the search text has fewer than 3 characters no
\* debounce timer is pending, and no timer and no suggestion request exists for
\* a text of fewer than 3 characters.
C4_ShortQueryNeverFetches ==
    /\ Len(searchQuery) < 3 => timers = {}
    /\ \A t \in timers : Len(t.query) >= 3
    /\ \A i \in DOMAIN suggestPending :
           suggestPending[i].limit = 5 => Len(suggestPending[i].q) >= 3

\* The text has just been shortened below 3 characters while a timer was
\* pending.
C4_Witness ==
    /\ lastOp.op = "type"
    /\ lastOp.hadTimer
    /\ searchQuery = "ab"
    /\ timers = {}

\* C5 (SpecSearchLive): while the component is mounted with a search text of
\* at least 3 characters, either its one timer (for that text, with delay 300)
\* is pending and no suggestion request has been issued since the text changed,
\* or no timer is pending and exactly one has; the timer's firing issues one
\* request, for the current text with limit 5; and a text of at least 3
\* characters leads to that request unless the text changes again or the
\* component is unmounted first.
C5_OneRequestPerQuietPeriod ==
    /\ []((mounted /\ Len(searchQuery) >= 3) =>
            /\ Cardinality(timers) + suggestFired = 1
            /\ \A t \in timers : t.query = searchQuery /\ t.delay = 300)
    /\ [][lastOp'.op = "timer" =>
            /\ suggestFired' = suggestFired + 1
            /\ suggestPending' = Append(suggestPending, [q |-> searchQuery, limit |-> 5])
            /\ searchQuery' = searchQuery]_vars
    /\ \A q \in {x \in Queries : Len(x) >= 3} :
           (mounted /\ searchQuery = q /\ suggestFired = 0)
               ~> (\/ searchQuery = q /\ suggestFired = 1
                   \/ searchQuery # q
                   \/ ~mounted)

\* The timer for "abcd" has fired and its request is in flight.
C5_Witness ==
    /\ lastOp.op = "timer"
    /\ searchQuery = "abcd"
    /\ suggestFired = 1
    /\ timers = {}
    /\ Len(suggestPending) >= 1
    /\ suggestPending[Len(suggestPending)] = [q |-> "abcd", limit |-> 5]

\* C6 (SpecSearch): at most one debounce timer is pending; a pending timer
\* belongs to the mounted component and to the current search text; and a timer
\* that fires fires for the current text.
C6_SupersededTimerNeverFires ==
    /\ Cardinality(timers) <= 1
    /\ \A t \in timers : mounted /\ t.query = searchQuery
    /\ lastOp.op = "timer" => mounted /\ lastOp.query = searchQuery

\* A keystroke has superseded a pending timer and scheduled the next one.
C6_Witness ==
    /\ lastOp.op = "type"
    /\ lastOp.hadTimer
    /\ searchQuery = "abcd"
    /\ Cardinality(timers) = 1

\* C7 (SpecCategory): once the category effect has run for a changed category
\* with the style loaded and both layers present, the building layer has the
\* default color and no filter for "All", and the override color and the filter
\* category == c for any other category c, for which the photo-marker layer's
\* filter also requires category == c.
C7_CategoryEffectApplies ==
    (/\ lastOp.op = "category"
     /\ lastOp.changed
     /\ styleLoaded
     /\ {BUILDING_LAYER_ID, PHOTO_MARKER_LAYER_ID} \subseteq layers)
    => IF activeCategory = "All"
       THEN /\ buildingColor = "#d4af37"
            /\ buildingFilter = Null
       ELSE /\ buildingColor = "#9400d3"
            /\ buildingFilter = [op |-> "==", get |-> "category", value |-> activeCategory]
            /\ photoFilter.op = "all"
            /\ photoFilter.get = "category"
            /\ photoFilter.value = activeCategory

\* The effect has run for "Security Pillar" with both layers present.
C7_Witness ==
    /\ lastOp.op = "category"
    /\ lastOp.changed
    /\ styleLoaded
    /\ {BUILDING_LAYER_ID, PHOTO_MARKER_LAYER_ID} \subseteq layers
    /\ activeCategory = "Security Pillar"
    /\ buildingColor = COLOR_PURPLE

\* C8 (Spec), as claimed: at most one map instance is constructed per mount, at
\* most one is live at any time, and none is live once the component is
\* unmounted.
C8_MapConstructedOncePerMount ==
    /\ constructedInMount <= 1
    /\ Cardinality(liveMaps) <= 1
    /\ ~mounted => liveMaps = {}

\* C9 (Spec), as claimed: after a primary-button click that hits no
\* feature-bearing layer, route points are empty, route is null, no feature is
\* selected and the image viewer is closed; and the click issues exactly one
\* reverse-geocode request, for the clicked coordinate.
C9_EmptyClickClearsRoute ==
    /\ []((/\ lastOp.op = "click"
           /\ lastOp.button = 0
           /\ lastOp.hit \cap {"buildings-3d", "viewpoint-markers", "building-marker"} = {})
          => /\ routePoints = <<>>
             /\ route = Null
             /\ selectedFeature = Null
             /\ view360Url = NoUrl)
    /\ [][(/\ lastOp'.op = "click"
           /\ lastOp'.button = 0
           /\ lastOp'.hit \cap {"buildings-3d", "viewpoint-markers", "building-marker"} = {})
          => reversePending' =
                 Append(reversePending, [lat |-> lastOp'.at.lat, lng |-> lastOp'.at.lng,
                                         overtaken |-> FALSE])]_vars

\* C10 (Spec): a primary-button click that hits the building layer or the
\* photo-marker layer issues no reverse-geocode request, sets reverseGeocodeInfo
\* to null and leaves route, route points and the selection as they were.
C10_FeatureClickSuppressesGeocode ==
    [][(/\ lastOp'.op = "click"
        /\ lastOp'.button = 0
        /\ lastOp'.hit \cap {"buildings-3d", "building-marker"} # {})
       => /\ reversePending' = reversePending
          /\ isReverseGeocoding' = isReverseGeocoding
          /\ reverseGeocodeInfo' = Null
          /\ route' = route
          /\ routePoints' = routePoints
          /\ selectedFeature' = selectedFeature
          /\ view360Url' = view360Url]_vars

\* A click on the photo-marker layer has run while a feature was selected, a
\* route was drawn and a reverse-geocode request was in flight.
C10_Witness ==
    /\ lastOp.op = "click"
    /\ lastOp.button = 0
    /\ PHOTO_MARKER_LAYER_ID \in lastOp.hit
    /\ selectedFeature # Null
    /\ route # Null
    /\ reversePending # <<>>
    /\ reverseGeocodeInfo = Null

\* C11 (Spec), as claimed: once the load handler has run, a primary click on a
\* building polygon or on a photo marker leaves that feature selected, the
\* camera flown to its representative point at zoom 16, the image viewer open
\* if the feature carries an imageURL, and reverseGeocodeInfo null.
C11_FeatureClickSelects ==
    (/\ lastOp.op = "click"
     /\ lastOp.button = 0
     /\ loadHandled
     /\ lastOp.hit \cap {"buildings-3d", "building-marker"} # {})
    => /\ reverseGeocodeInfo = Null
       /\ selectedFeature # Null
       /\ selectedFeature.centerPoint = lastOp.at
       /\ camera = [center |-> lastOp.at, zoom |-> 16]
       /\ selectedFeature.imageURL # "" => view360Url = selectedFeature.imageURL

\* C12 (Spec), as claimed: after a contextmenu event with a marker feature
\* under the point, whatever its properties, that marker is selected, its image
\* viewer is open, the camera is centred on it, the collection buffer is empty
\* and the collection form is closed.
C12_ContextMenuPromotesAnyMarker ==
    (lastOp.op = "contextmenu" /\ Len(lastOp.features) > 0)
    => /\ selectedFeature # Null
       /\ selectedFeature.id = lastOp.features[1].properties.id
       /\ view360Url = lastOp.features[1].properties.imageURL
       /\ view360Url # NoUrl
       /\ camera = [center |-> lastOp.features[1].coordinates, zoom |-> 16]
       /\ collectedCoordinates = <<>>
       /\ ~isCoordinateFormOpen

\* C12 (Spec), amended: a contextmenu event whose first marker feature under
\* the point has a non-empty imageURL selects that marker (with the event's
\* point), opens its image viewer, centres the camera on it at zoom 16, empties
\* the collection buffer and closes the collection form; with no marker under
\* the point, or a first marker without imageURL, it changes none of these.
C12_ContextMenuPromotesImageMarker ==
    [][lastOp'.op = "contextmenu" =>
         IF Len(lastOp'.features) > 0 /\ lastOp'.features[1].properties.imageURL # ""
         THEN /\ selectedFeature' =
                     [name |-> lastOp'.features[1].properties.name,
                      id |-> lastOp'.features[1].properties.id,
                      imageURL |-> lastOp'.features[1].properties.imageURL,
                      category |-> lastOp'.features[1].properties.category,
                      centerPoint |-> lastOp'.at]
              /\ view360Url' = lastOp'.features[1].properties.imageURL
              /\ camera' = [center |-> lastOp'.features[1].coordinates, zoom |-> 16]
              /\ collectedCoordinates' = <<>>
              /\ ~isCoordinateFormOpen'
         ELSE UNCHANGED <<selectedFeature, view360Url, camera, collectedCoordinates,
                          isCoordinateFormOpen>>]_vars

\* A contextmenu on the marker with an image has emptied a buffer the press
\* itself had just added to.
C12_Witness ==
    /\ lastOp.op = "contextmenu"
    /\ lastOp.samePress
    /\ lastOp.features = <<MarkerWithImage>>
    /\ lastDown.collectedBefore >= 1
    /\ selectedFeature # Null
    /\ selectedFeature.id = 1
    /\ view360Url = "g1.jpg"
    /\ collectedCoordinates = <<>>

\* C13 (Spec), as claimed: after the mousedown and the contextmenu of one
\* secondary-button press that lands on a marker feature, the press's
\* coordinate is not in the collected-coordinate buffer.
C13_MarkerPressNotCollected ==
    (lastOp.op = "contextmenu" /\ lastOp.samePress /\ Len(lastOp.features) > 0)
    => \A i \in DOMAIN collectedCoordinates :
           collectedCoordinates[i] # [lng |-> ToFixed(lastOp.at.lng, 6),
                                      lat |-> ToFixed(lastOp.at.lat, 6)]

\* C13 (Spec), amended: the same, for a press that lands on a marker feature
\* with a non-empty imageURL.
C13_ImageMarkerPressNotCollected ==
    (/\ lastOp.op = "contextmenu"
     /\ lastOp.samePress
     /\ Len(lastOp.features) > 0
     /\ lastOp.features[1].properties.imageURL # "")
    => \A i \in DOMAIN collectedCoordinates :
           collectedCoordinates[i] # [lng |-> ToFixed(lastOp.at.lng, 6),
                                      lat |-> ToFixed(lastOp.at.lat, 6)]

\* Both handlers of one press on the marker with an image have run, the
\* mousedown having added the press's coordinate to the buffer.
C13_Witness ==
    /\ lastOp.op = "contextmenu"
    /\ lastOp.samePress
    /\ lastOp.at = PA
    /\ lastOp.features = <<MarkerWithImage>>
    /\ lastDown.collectedBefore < 155
    /\ loggedClicks = <<[lng |-> 832512, lat |-> 177412, button |-> "RIGHT"]>>
    /\ collectedCoordinates = <<>>

\* C14 (SpecPress): every mousedown puts its click in the interaction log; one
\* of the secondary button also appends its coordinate (to six decimals) to the
\* collection buffer if that holds fewer than 155 entries and clears route
\* points and route, at capacity too; one of any other button leaves the
\* buffer, route points and route as they were.
C14_MouseDownEffects ==
    [][lastOp'.op = "mousedown" =>
         /\ loggedClicks' # <<>>
         /\ loggedClicks'[1] =
                [lng |-> ToFixed(lastDown'.at.lng, 4), lat |-> ToFixed(lastDown'.at.lat, 4),
                 button |-> CASE lastDown'.button = 0 -> "LEFT"
                              [] lastDown'.button = 2 -> "RIGHT"
                              [] OTHER -> "OTHER"]
         /\ IF lastDown'.button = 2
            THEN /\ collectedCoordinates' =
                        IF Len(collectedCoordinates) < 155
                        THEN Append(collectedCoordinates,
                                    [lng |-> ToFixed(lastDown'.at.lng, 6),
                                     lat |-> ToFixed(lastDown'.at.lat, 6)])
                        ELSE collectedCoordinates
                 /\ routePoints' = <<>>
                 /\ route' = Null
            ELSE UNCHANGED <<collectedCoordinates, routePoints, route>>]_vars

\* A secondary-button mousedown has cleared a drawn route with the buffer at
\* its capacity.
C14_Witness ==
    /\ lastOp.op = "mousedown"
    /\ lastDown.button = 2
    /\ lastDown.collectedBefore = 155
    /\ lastDown.hadRoute
    /\ Len(collectedCoordinates) = 155
    /\ route = Null

\* C15 (Spec), as claimed: a route request records the viewport center read at
\* request time and the destination and sets route to null; while a request is
\* pending route leaves null only by a response; and a successful response sets
\* route to the returned geometry, recenters the camera at zoom 16 on the center
\* recorded at request time and sets no error.
C15_RouteRequestAndResponse ==
    /\ [][lastOp'.op = "handleRoute" =>
            /\ route' = Null
            /\ Len(routePending') = Len(routePending) + 1
            /\ routePending'[Len(routePending')].start = camera.center
            /\ routePending'[Len(routePending')].end = lastOp'.end]_vars
    /\ [][(routePending # <<>> /\ route = Null /\ route' # Null)
            => lastOp'.op = "routeResponse"]_vars
    /\ [][(lastOp'.op = "routeResponse" /\ lastOp'.ok) =>
            /\ route' = [type |-> "LineString", id |-> 1]
            /\ camera' = [center |-> lastOp'.req.start, zoom |-> 16]
            /\ error' = error]_vars

C17_SubmitAlwaysLooksUp ==
    [][(lastOp'.op = "search" /\ lastOp'.hadMap) =>
         suggestPending' = Append(suggestPending, [q |-> lastOp'.query, limit |-> 1])]_vars

\* C17 amended (SpecLookup): a submit made while the map exists with a text
\* that is not blank (empty or spaces only) appends at once exactly one limit-1
\* forward lookup for the text without its surrounding spaces, however short
\* it is, and touches no debounce timer; a submit of a blank text, or without a
\* map, issues no lookup.
C17_SubmitLooksUpTrimmedText ==
    [][lastOp'.op = "search" =>
         LET q == lastOp'.query
             trimmed == CASE q = " ab " -> "ab" [] OTHER -> q
         IN /\ timers' = timers
            /\ IF lastOp'.hadMap /\ q \notin {"", "  "}
               THEN suggestPending' = Append(suggestPending, [q |-> trimmed, limit |-> 1])
               ELSE suggestPending' = suggestPending]_vars

\* A two-character text typed with surrounding spaces has just been submitted
\* with the map present while its debounce timer is still pending: the lookup for
\* "ab" with limit 1 is in flight.
C17_Witness ==
    /\ lastOp.op = "search"
    /\ lastOp.hadMap
    /\ lastOp.query = " ab "
    /\ timers # {}
    /\ suggestPending # <<>>
    /\ suggestPending[Len(suggestPending)] = [q |-> "ab", limit |-> 1]

\* C18 (SpecLookup): every answer to a reverse lookup, a failure included,
\* yields a result with the requested coordinates (as six-decimal values):
\* pincode "Error" and fullAddress "Service Error" on a failure, "N/A" and
\* "No Address Data Found" without an address object, and with an address
\* object the postcode or "N/A" and the display name or "Address Not Found".
C18_ReverseLookupSentinels ==
    [][lastOp'.op = "reverseResponse" =>
         LET r == lastOp'.resp
             info == reverseGeocodeInfo'
         IN /\ info # Null
            /\ lastOp'.req = [lng |-> 832512344, lat |-> 177412356]
                  => info.latitude = 17741236 /\ info.longitude = 83251234
            /\ r.kind = "failure"
                  => info.pincode = "Error" /\ info.fullAddress = "Service Error"
            /\ (r.kind = "data" /\ ~r.hasAddress)
                  => info.pincode = "N/A" /\ info.fullAddress = "No Address Data Found"
            /\ (r.kind = "data" /\ r.hasAddress) =>
                  /\ info.pincode = (IF r.postcode = "" THEN "N/A" ELSE r.postcode)
                  /\ info.fullAddress =
                         (IF r.display_name = "" THEN "Address Not Found"
                          ELSE r.display_name)]_vars

\* The answer to the reverse lookup of a click at PA came with an address
\* object without a postcode.
C18_Witness ==
    /\ lastOp.op = "reverseResponse"
    /\ lastOp.resp.kind = "data"
    /\ lastOp.resp.hasAddress
    /\ lastOp.resp.postcode = ""
    /\ reverseGeocodeInfo =
           [pincode |-> "N/A", latitude |-> 17741236, longitude |-> 83251234,
            fullAddress |-> "Beach Road, Visakhapatnam"]

\* C19 (SpecLookup): the list a forward search yields has one entry per
\* service result, in the service's order, each with exactly the fields name
\* (the display name), lng and lat (the numbers the service sent as text) and
\* zoom (12 for the types "city" and "administrative", 14 for any other); it
\* is empty when the service sends no result or the request fails.
C19_ForwardSearchMapping ==
    [][lastOp'.op = "suggestResponse" =>
         LET r == lastOp'.resp
             out == searchSuggestions'
         IN /\ r.kind = "failure" => out = <<>>
            /\ r.kind = "data" =>
                  /\ Len(out) = Len(r.data)
                  /\ \A k \in DOMAIN out :
                        /\ DOMAIN out[k] = {"name", "lng", "lat", "zoom"}
                        /\ out[k].name = r.data[k].display_name
                        /\ out[k].zoom =
                               (IF r.data[k].type \in {"city", "administrative"}
                                THEN 12 ELSE 14)
                        /\ r.data[k].lon = "83.30" => out[k].lng = 833000000
                        /\ r.data[k].lat = "17.68" => out[k].lat = 176800000
                        /\ r.data[k].lon = "83.2167" => out[k].lng = 832167000
                        /\ r.data[k].lat = "17.7" => out[k].lat = 177000000
                        /\ r.data[k].lon = "83.2184815" => out[k].lng = 832184815
                        /\ r.data[k].lat = "17.6868159" => out[k].lat = 176868159]_vars

\* A suggestion request was answered with three results of the types suburb,
\* city and administrative: three suggestions in that order with zooms 14, 12
\* and 12.
C19_Witness ==
    /\ lastOp.op = "suggestResponse"
    /\ lastOp.resp.kind = "data"
    /\ Len(lastOp.resp.data) = 3
    /\ searchSuggestions =
           <<[name |-> "Gajuwaka", lng |-> 832167000, lat |-> 177000000, zoom |-> 14],
             [name |-> "Visakhapatnam", lng |-> 833000000, lat |-> 176800000,
              zoom |-> 12],
             [name |-> "Visakhapatnam District", lng |-> 832184815,
              lat |-> 176868159, zoom |-> 12]>>

\* C20 (SpecLookup): when the answer to a submitted search is a failure or
\* holds no result, the search error becomes the not-found message and the
\* camera stays where it was; when it holds results, the search error is null,
\* the camera is at the first result with that result's zoom, and the search
\* text, the suggestions and the reverse-geocode result are cleared.
C20_SubmitOutcome ==
    [][lastOp'.op = "searchResponse" =>
         LET r == lastOp'.resp IN
         IF r.kind = "failure" \/ r.data = <<>>
         THEN /\ searchError' # Null
              /\ searchError' = [msg |-> "Location/Pincode not found or ambiguous."]
              /\ camera' = camera
         ELSE /\ searchError' = Null
              /\ camera' =
                     (IF r.data[1].display_name = "Gajuwaka"
                      THEN [center |-> [lng |-> 832167000, lat |-> 177000000],
                            zoom |-> 14]
                      ELSE [center |-> [lng |-> 833000000, lat |-> 176800000],
                            zoom |-> 12])
              /\ searchQuery' = ""
              /\ searchSuggestions' = <<>>
              /\ reverseGeocodeInfo' = Null]_vars

\* A submitted search was answered with three results: the camera is at the
\* first of them and the search text, the suggestions, the reverse-geocode
\* result and the search error are empty.
C20_Witness ==
    /\ lastOp.op = "searchResponse"
    /\ lastOp.resp.kind = "data"
    /\ Len(lastOp.resp.data) = 3
    /\ camera = [center |-> [lng |-> 832167000, lat |-> 177000000], zoom |-> 14]
    /\ searchError = Null
    /\ searchQuery = ""
    /\ searchSuggestions = <<>>
    /\ reverseGeocodeInfo = Null

\* C21 (Spec): the reverse-geocode in-progress flag is true exactly when at
\* least one reverse-geocode request is in flight.
C21_InProgressWhilePending ==
    isReverseGeocoding <=> (reversePending # <<>>)

\* C22 (Spec): the answer to a reverse-geocode request becomes the displayed
\* result when it arrives, whatever is selected, whatever was requested after
\* it and whether or not an answer to a later request has been displayed.
C22_AnswerAppliedOnArrival ==
    [][lastOp'.op = "reverseResponse" =>
         /\ reverseGeocodeInfo' # Null
         /\ lastOp'.req = [lng |-> 832512344, lat |-> 177412356]
               => reverseGeocodeInfo'.latitude = 17741236
                  /\ reverseGeocodeInfo'.longitude = 83251234
         /\ lastOp'.req = [lng |-> 832100006, lat |-> 177200004]
               => reverseGeocodeInfo'.latitude = 17720000
                  /\ reverseGeocodeInfo'.longitude = 83210001
         /\ selectedFeature' = selectedFeature]_vars

\* Point A was clicked, then point B; the answer for B arrived first and the
\* answer for A last: nothing is in flight and the displayed result is A's.
C22_Witness ==
    /\ lastOp.op = "reverseResponse"
    /\ lastOp.overtaken
    /\ lastOp.req = [lng |-> 832512344, lat |-> 177412356]
    /\ reversePending = <<>>
    /\ reverseGeocodeInfo # Null
    /\ reverseGeocodeInfo.latitude = 17741236
    /\ reverseGeocodeInfo.longitude = 83251234

\* C23 (Spec): a navigation to a suggestion or to the first result of a
\* submitted search with the map present leaves the
\* suggestions and the search text empty and the search error and the
\* reverse-geocode result null, with the camera at the suggestion, and leaves
\* the selected feature, the viewer, the route, the route points, both
\* buffers, the collection form and the active category as they were; without
\* a map it leaves all of these and the search state as they were.
C23_FlyToLocationFrame ==
    [][(\/ lastOp'.op = "suggestionClick"
        \/ lastOp'.op = "searchResponse" /\ lastOp'.to # Null) =>
         /\ IF lastOp'.hadMap
            THEN /\ searchSuggestions' = <<>>
                 /\ searchQuery' = ""
                 /\ searchError' = Null
                 /\ reverseGeocodeInfo' = Null
                 /\ camera'.center = [lng |-> lastOp'.to.lng, lat |-> lastOp'.to.lat]
            ELSE /\ searchSuggestions' = searchSuggestions
                 /\ searchQuery' = searchQuery
                 /\ searchError' = searchError
                 /\ reverseGeocodeInfo' = reverseGeocodeInfo
                 /\ camera' = camera
         /\ selectedFeature' = selectedFeature
         /\ view360Url' = view360Url
         /\ route' = route
         /\ routePoints' = routePoints
         /\ collectedCoordinates' = collectedCoordinates
         /\ loggedClicks' = loggedClicks
         /\ isCoordinateFormOpen' = isCoordinateFormOpen
         /\ activeCategory' = activeCategory
         /\ isReverseGeocoding' = isReverseGeocoding]_vars

\* After a press was logged, a suggestion has been clicked with the map
\* present: the camera is at the suggestion and the search state is cleared.
C23_Witness ==
    /\ lastOp.op = "suggestionClick"
    /\ lastOp.hadMap
    /\ loggedClicks # <<>>
    /\ searchQuery = ""
    /\ searchSuggestions = <<>>
    /\ reverseGeocodeInfo = Null
    /\ camera.center = [lng |-> 833000000, lat |-> 176800000]
    /\ camera.zoom = 12

\* C24 (Spec): whenever the search text has fewer than three characters the
\* suggestion list is empty.
C24_ShortTextNoSuggestions ==
    Len(searchQuery) < MIN_SUGGEST_LENGTH => searchSuggestions = <<>>

\* C25 (Spec): whenever the building layer exists, its filter and color are
\* the ones of the active category, and whenever the photo-marker layer exists
\* its filter is the one of the active category.
C25_LayerFilterFollowsCategory ==
    /\ "buildings-3d" \in layers =>
          IF activeCategory = "All"
          THEN buildingFilter = Null /\ buildingColor = "#d4af37"
          ELSE /\ buildingFilter = [op |-> "==", get |-> "category", value |-> activeCategory]
               /\ buildingColor = "#9400d3"
    /\ "building-marker" \in layers =>
          IF activeCategory = "All"
          THEN photoFilter.op = "has"
          ELSE photoFilter.op = "all" /\ photoFilter.value = activeCategory

\* C26 (Spec): once the load handler has run on the current map, the icon
\* load has been requested, and the photo-marker layer is on the map only if
\* it has.
C26_LoadHandlerReachesIconStep ==
    /\ loadHandled => iconRequested
    /\ "building-marker" \in layers => iconRequested

\* C27 (Spec): the marker dataset the load handler builds has one point
\* feature per building feature, in the dataset's order, with that feature's
\* properties, placed at the viewpoint coordinates when the feature has them,
\* else at the average of the vertices of the first ring of a Polygon with
\* coordinates, else at [0, 0].
C27_MarkerDataset ==
    [][lastOp'.op = "load" =>
         LET features == BuildingFeatures(buildings)
             markers == viewpointSource'
         IN /\ Len(markers) = Len(features)
            /\ \A k \in DOMAIN markers :
                  /\ markers[k].type = "Feature"
                  /\ markers[k].geometry.type = "Point"
                  /\ markers[k].properties = features[k].properties
                  /\ markers[k].geometry.coordinates =
                        (CASE features[k].properties.name = "Gate 1"
                                -> <<832512344, 177412356>>
                           [] features[k].properties.name = "Cabin 2"
                                -> <<832304, 177204>>
                           [] features[k].properties.name = "Tower" -> <<20, 30>>
                           [] OTHER -> <<0, 0>>)]_vars

\* The load handler has run on the second dataset: four markers, the ones of
\* the line and of the feature without coordinates at [0, 0], the one of the
\* feature whose viewpoint has no coordinates at the average of its ring.
C27_Witness ==
    /\ lastOp.op = "load"
    /\ buildings = 2
    /\ Len(viewpointSource) = 4
    /\ viewpointSource[1].geometry.coordinates = <<0, 0>>
    /\ viewpointSource[2].geometry.coordinates = <<20, 30>>
    /\ viewpointSource[3].geometry.coordinates = <<0, 0>>
    /\ viewpointSource[4].geometry.coordinates = <<832512344, 177412356>>
    /\ viewpointSource[4].properties.imageURL = "/img/gate1.jpg"

C29_ErrorOnlyOnFailedRequest ==
    [][error' # error => (lastOp'.op = "routeResponse" /\ ~lastOp'.ok)]_vars

\* C30 (Spec): whenever the image viewer has a URL, a feature is selected
\* and the URL is that feature's imageURL; and every step that leaves no
\* feature selected leaves the viewer without a URL.
C30_ViewerUrlOfSelection ==
    /\ [](view360Url # "" =>
            selectedFeature # Null /\ view360Url = selectedFeature.imageURL)
    /\ [][selectedFeature' = Null => view360Url' = ""]_vars

\* The viewer of the selected marker was closed and has been opened again
\* from the info panel.
C30_Witness ==
    /\ lastOp.op = "on360View"
    /\ selectedFeature # Null
    /\ selectedFeature.name = "Gate 1"
    /\ view360Url = "g1.jpg"

====
